---------------------------- MODULE Spec2Model ----------------------------
(* Request coordinator (server.py) and report pipeline (pipeline.py) of   *)
(* the asx-report-agent, as a state machine.                               *)
(*                                                                         *)
(* Text is a sequence of one-character strings.  create_asx_report is an   *)
(* asyncio coroutine: it runs without interruption between two points at   *)
(* which it really suspends.  Acquiring _IN_FLIGHT_LOCK never suspends     *)
(* while the lock is free, and no holder awaits inside the critical        *)
(* section, so lines 117-159 are one step and the continuation after       *)
(* `await task` (lines 162-187) is another.  run_asx_report runs in a      *)
(* worker thread, one step per collaborator call.                          *)
EXTENDS Integers, Sequences, FiniteSets, TLC

(***************************************************************************)
(* Bounds                                                                  *)
(***************************************************************************)
MaxCallers == 2
MaxTasks == 2
MaxTime == 3
MaxLen == 4

None == <<"None">>

(***************************************************************************)
(* Text helpers (str.strip, str.lower, str.upper, str.isdigit)             *)
(***************************************************************************)
LowerChars == <<"a","b","c","d","e","f","g","h","i","j","k","l","m",
                "n","o","p","q","r","s","t","u","v","w","x","y","z">>
UpperChars == <<"A","B","C","D","E","F","G","H","I","J","K","L","M",
                "N","O","P","Q","R","S","T","U","V","W","X","Y","Z">>
DigitChars == {"0","1","2","3","4","5","6","7","8","9"}
SpaceChars == {" ", "\t"}

IndexIn(ch, tbl) == CHOOSE i \in 1..Len(tbl) : tbl[i] = ch
IsLowerCh(ch) == \E i \in 1..Len(LowerChars) : LowerChars[i] = ch
IsUpperCh(ch) == \E i \in 1..Len(UpperChars) : UpperChars[i] = ch
ToLowerCh(ch) == IF IsUpperCh(ch) THEN LowerChars[IndexIn(ch, UpperChars)] ELSE ch
ToUpperCh(ch) == IF IsLowerCh(ch) THEN UpperChars[IndexIn(ch, LowerChars)] ELSE ch
StrLower(s) == [i \in 1..Len(s) |-> ToLowerCh(s[i])]
StrUpper(s) == [i \in 1..Len(s) |-> ToUpperCh(s[i])]
IsAlnumUpper(ch) == IsUpperCh(ch) \/ ch \in DigitChars
IsDigitStr(s) == Len(s) > 0 /\ \A i \in 1..Len(s) : s[i] \in DigitChars

\* Python's `a or b` for a code that is None when absent
OrElse(a, b) == IF a # None THEN a ELSE b

RECURSIVE LStrip(_)
LStrip(s) == IF s # <<>> /\ Head(s) \in SpaceChars THEN LStrip(Tail(s)) ELSE s
RECURSIVE RStrip(_)
RStrip(s) == IF s # <<>> /\ s[Len(s)] \in SpaceChars
             THEN RStrip(SubSeq(s, 1, Len(s) - 1)) ELSE s
StrStrip(s) == RStrip(LStrip(s))

(***************************************************************************)
(* pipeline.normalize_asx_code                                             *)
(***************************************************************************)
ASX_CODE_STOPWORDS == {
    <<"A">>, <<"A","N">>, <<"A","N","D">>, <<"A","S","X">>, <<"A","X">>,
    <<"A","T","T","A","C","H">>, <<"A","T","T","A","C","H","E","D">>,
    <<"B","O","D","Y">>, <<"C","H","A","R","T">>, <<"C","H","E","C","K">>,
    <<"C","O","D","E">>, <<"C","O","M","P","A","N","Y">>,
    <<"C","R","E","A","T","E">>, <<"D","A","I","L","Y">>,
    <<"E","M","A","I","L">>, <<"F","O","R">>,
    <<"F","I","N","A","N","C","E">>, <<"G","E","N","E","R","A","T","E">>,
    <<"G","R","A","P","H">>, <<"I","S">>, <<"M","A","I","L">>, <<"O","F">>,
    <<"P","L","E","A","S","E">>, <<"Q","U","O","T","E">>,
    <<"R","E","P","O","R","T">>, <<"S","E","N","D">>,
    <<"S","T","O","C","K">>, <<"S","U","B","J","E","C","T">>,
    <<"T","H","E">>, <<"T","H","I","S">>, <<"T","O">>,
    <<"T","O","D","A","Y">>, <<"T","O","D","A","Y","S">>,
    <<"W","I","T","H">>, <<"Y","O","U","R">>, <<"Y","A","H","O","O">> }

\* re.fullmatch(r"([A-Z0-9]{1,6})\.AX", upper): the captured group, or None
DotAxGroup(upper) ==
    LET n == Len(upper) IN
    IF /\ n >= 4 /\ n <= 9
       /\ SubSeq(upper, n - 2, n) = <<".","A","X">>
       /\ \A i \in 1..(n - 3) : IsAlnumUpper(upper[i])
    THEN SubSeq(upper, 1, n - 3) ELSE None

\* re.fullmatch(r"[A-Z0-9]{2,6}", upper)
IsCleanCode(upper) ==
    /\ Len(upper) >= 2 /\ Len(upper) <= 6
    /\ \A i \in 1..Len(upper) : IsAlnumUpper(upper[i])

\* character classes of the regular expressions
UpperSet == {UpperChars[i] : i \in 1..Len(UpperChars)}
LowerSet == {LowerChars[i] : i \in 1..Len(LowerChars)}
AlnumSet == UpperSet \cup DigitChars
WordSet == AlnumSet \cup LowerSet \cup {"_"}

\* the first index from i on whose character is not in chars (is in chars)
RECURSIVE RunEndIn(_, _, _)
RunEndIn(text, i, chars) ==
    IF i <= Len(text) /\ text[i] \in chars THEN RunEndIn(text, i + 1, chars) ELSE i
RECURSIVE RunEndNotIn(_, _, _)
RunEndNotIn(text, i, chars) ==
    IF i <= Len(text) /\ text[i] \notin chars THEN RunEndNotIn(text, i + 1, chars)
    ELSE i

StartsWithAt(text, i, pat) ==
    /\ i >= 1 /\ i + Len(pat) - 1 <= Len(text)
    /\ SubSeq(text, i, i + Len(pat) - 1) = pat

\* \b before index i, whose character is a word character
BoundaryBefore(text, i) == i = 1 \/ text[i - 1] \notin WordSet
\* \b after a word character, before index j
BoundaryAfter(text, j) == j > Len(text) \/ text[j] \notin WordSet

\* str.strip(chars)
RECURSIVE StripChars(_, _)
StripChars(s, chars) ==
    IF s # <<>> /\ Head(s) \in chars THEN StripChars(Tail(s), chars)
    ELSE IF s # <<>> /\ s[Len(s)] \in chars
    THEN StripChars(SubSeq(s, 1, Len(s) - 1), chars)
    ELSE s

\* str.split(sep)
RECURSIVE Split(_, _)
Split(s, sep) ==
    LET j == RunEndNotIn(s, 1, {sep}) IN
    IF j > Len(s) THEN <<s>>
    ELSE <<SubSeq(s, 1, j - 1)>> \o Split(SubSeq(s, j + 1, Len(s)), sep)

\* re.sub(r"[^A-Z0-9.]", "", text)
KeepCodeChars(text) == SelectSeq(text, LAMBDA ch : ch \in AlnumSet \cup {"."})

\* r"https?://\S+" at index i: the length of the scheme prefix, 0 if no match
HttpAt(text, i) ==
    IF /\ StartsWithAt(text, i, <<"h","t","t","p","s",":","/","/">>)
       /\ i + 8 <= Len(text) /\ text[i + 8] \notin SpaceChars
    THEN 8
    ELSE IF /\ StartsWithAt(text, i, <<"h","t","t","p",":","/","/">>)
            /\ i + 7 <= Len(text) /\ text[i + 7] \notin SpaceChars
    THEN 7
    ELSE 0

\* the start of the leftmost r"https?://\S+" from i on, 0 if there is none
RECURSIVE UrlSearch(_, _)
UrlSearch(text, i) ==
    IF i > Len(text) THEN 0
    ELSE IF HttpAt(text, i) > 0 THEN i
    ELSE UrlSearch(text, i + 1)

\* urllib.parse.urlparse of an http(s) URL without ";", "[" or "]": the
\* network location ends at the first "/", "?" or "#", the fragment
\* starts at the first "#", the query at the first "?"
UrlParse(url) ==
    LET after == SubSeq(url, HttpAt(StrLower(url) \o <<"/">>, 1) + 1, Len(url))
        n == RunEndNotIn(after, 1, {"/", "?", "#"})
        tail == SubSeq(after, n, Len(after))
        nofrag == SubSeq(tail, 1, RunEndNotIn(tail, 1, {"#"}) - 1)
        q == RunEndNotIn(nofrag, 1, {"?"})
    IN [path |-> SubSeq(nofrag, 1, q - 1),
        query |-> SubSeq(nofrag, q + 1, Len(nofrag))]

\* lines 129-133 and 138-142: the code of a text that ends in .AX
AxCode(text) ==
    LET cleaned == KeepCodeChars(StrUpper(text))
        n == Len(cleaned)
        code == SubSeq(cleaned, 1, n - 3)
    IN IF /\ n >= 3 /\ SubSeq(cleaned, n - 2, n) = <<".","A","X">>
          /\ Len(code) >= 1 /\ Len(code) <= 6
          /\ ~IsDigitStr(code) /\ code \notin ASX_CODE_STOPWORDS
       THEN code ELSE None

\* lines 128-133: the first path segment that gives a code
RECURSIVE FirstAxCode(_, _)
FirstAxCode(parts, i) ==
    IF i > Len(parts) THEN None
    ELSE IF parts[i] = <<>> THEN FirstAxCode(parts, i + 1)
    ELSE OrElse(AxCode(parts[i]), FirstAxCode(parts, i + 1))

\* urllib.parse.parse_qs(query).get(key), first value, for a query without
\* "%" and "+": fields are separated by "&", a field without "=" or with
\* an empty value is dropped
RECURSIVE QueryValue(_, _, _)
QueryValue(fields, i, key) ==
    IF i > Len(fields) THEN <<>>
    ELSE LET eq == RunEndNotIn(fields[i], 1, {"="})
             name == SubSeq(fields[i], 1, eq - 1)
             value == SubSeq(fields[i], eq + 1, Len(fields[i]))
         IN IF eq <= Len(fields[i]) /\ value # <<>> /\ name = key THEN value
            ELSE QueryValue(fields, i + 1, key)

\* lines 121-144: the URL strategy
UrlCode(raw) ==
    LET start == UrlSearch(StrLower(raw), 1) IN
    IF start = 0 THEN None
    ELSE LET match == SubSeq(raw, start, RunEndNotIn(raw, start, SpaceChars) - 1)
             parsed == UrlParse(StripChars(match,
                          {".", ",", ";", ":", "!", "?", "\"", "'"}))
             from_path == FirstAxCode(Split(parsed.path, "/"), 1)
             fields == Split(parsed.query, "&")
             from_p == AxCode(QueryValue(fields, 1, <<"p">>))
             from_symbol == AxCode(QueryValue(fields, 1,
                                   <<"s","y","m","b","o","l">>))
         IN OrElse(from_path, OrElse(from_p, from_symbol))

\* line 146: re.sub(r"https?://\S+", " ", text)
RECURSIVE RemoveUrls(_)
RemoveUrls(text) ==
    LET start == UrlSearch(text, 1) IN
    IF start = 0 THEN text
    ELSE LET end == RunEndNotIn(text, start, SpaceChars) IN
         SubSeq(text, 1, start - 1) \o <<" ">>
            \o RemoveUrls(SubSeq(text, end, Len(text)))

\* r"[A-Z0-9._%+-]+@[A-Z0-9.-]+\.[A-Z]{2,}" with its "@" at index at: the
\* index after the match, 0 if there is none.  The domain is taken as far
\* as a dot followed by two letters or more allows.
LocalSet == AlnumSet \cup {".", "_", "%", "+", "-"}
DomainSet == AlnumSet \cup {".", "-"}
EmailEnd(text, at) ==
    LET stop == RunEndIn(text, at + 1, DomainSet)
        dots == {d \in (at + 2)..(stop - 1) :
                    /\ text[d] = "."
                    /\ RunEndIn(text, d + 1, UpperSet) - (d + 1) >= 2}
    IN IF dots = {} THEN 0
       ELSE LET d == CHOOSE x \in dots : \A y \in dots : y <= x
            IN RunEndIn(text, d + 1, UpperSet)

\* line 147: re.sub(<e-mail address>, " ", text)
RECURSIVE RemoveEmails(_, _)
RemoveEmails(text, i) ==
    IF i > Len(text) THEN text
    ELSE IF text[i] \notin LocalSet THEN RemoveEmails(text, i + 1)
    ELSE LET at == RunEndIn(text, i, LocalSet)
             end == IF at <= Len(text) /\ text[at] = "@"
                    THEN EmailEnd(text, at) ELSE 0
         IN IF end = 0 THEN RemoveEmails(text, i + 1)
            ELSE LET rest == SubSeq(text, 1, i - 1) \o <<" ">>
                                \o SubSeq(text, end, Len(text))
                 IN RemoveEmails(rest, i + 1)

\* r"([A-Z0-9]{2,6})\b" at index i: the group, or None
CodeGroupAt(text, i) ==
    LET j == RunEndIn(text, i, AlnumSet) IN
    IF j - i >= 2 /\ j - i <= 6 /\ BoundaryAfter(text, j)
    THEN SubSeq(text, i, j - 1) ELSE None

\* the marker patterns of lines 150-153 at index i: the group, or None
MarkerWords == <<
    <<<<"A","S","X">>>>,
    <<<<"A","S","X">>>>,
    <<<<"F","O","R">>>>,
    <<<<"C","O","D","E">>, <<"T","I","C","K","E","R">>,
      <<"C","O","M","P","A","N","Y">>>> >>

MarkerAt(text, i, p) ==
    LET words == {w \in {MarkerWords[p][k] : k \in 1..Len(MarkerWords[p])} :
                     StartsWithAt(text, i, w)}
    IN IF words = {} \/ ~BoundaryBefore(text, i) THEN None
       ELSE LET w == CHOOSE x \in words : TRUE
                a == i + Len(w)
                b == RunEndIn(text, a, SpaceChars)
                sep == b <= Len(text) /\ text[b] \in {":", "-"}
                c == RunEndIn(text, b + 1, SpaceChars)
            IN IF p = 1 THEN (IF sep THEN CodeGroupAt(text, c) ELSE None)
               ELSE IF p \in {2, 3}
               THEN (IF b > a THEN CodeGroupAt(text, b) ELSE None)
               ELSE IF sep THEN CodeGroupAt(text, c)
               ELSE CodeGroupAt(text, b)

\* re.search(pattern, text): the group of the leftmost match, or None
RECURSIVE MarkerSearch(_, _, _)
MarkerSearch(text, i, p) ==
    IF i > Len(text) THEN None
    ELSE OrElse(MarkerAt(text, i, p), MarkerSearch(text, i + 1, p))

\* lines 149-159: the first pattern whose leftmost match is a usable code
RECURSIVE MarkerCode(_, _)
MarkerCode(text, p) ==
    IF p > Len(MarkerWords) THEN None
    ELSE LET code == MarkerSearch(text, 1, p) IN
         IF code # None /\ ~IsDigitStr(code) /\ code \notin ASX_CODE_STOPWORDS
         THEN code ELSE MarkerCode(text, p + 1)

\* re.findall(r"\b[A-Z][A-Z0-9]{1,5}\b", text): a token is a maximal run of
\* word characters, all of them letters or digits, of length 2..6, that
\* starts with a letter.
RECURSIVE FirstToken(_, _)
FirstToken(text, i) ==
    IF i > Len(text) THEN None
    ELSE IF text[i] \notin WordSet THEN FirstToken(text, i + 1)
    ELSE LET j == RunEndIn(text, i, WordSet)
             tok == SubSeq(text, i, j - 1)
         IN IF /\ text[i] \in UpperSet /\ j - i >= 2 /\ j - i <= 6
               /\ \A k \in i..(j - 1) : text[k] \in AlnumSet
               /\ tok \notin ASX_CODE_STOPWORDS /\ ~IsDigitStr(tok)
            THEN tok ELSE FirstToken(text, j)

\* lines 102-168
normalize_asx_code(asx_code) ==
    IF asx_code = None \/ asx_code = <<>> THEN None
    ELSE LET raw == StrStrip(asx_code) IN
         IF raw = <<>> THEN None
         ELSE LET upper == StrUpper(raw)
                  dot_ax == DotAxGroup(upper)
                  cleaned_text == RemoveEmails(RemoveUrls(upper), 1)
              IN IF dot_ax # None /\ ~IsDigitStr(dot_ax) THEN dot_ax
                 ELSE IF IsCleanCode(upper) /\ ~IsDigitStr(upper) THEN upper
                 ELSE OrElse(UrlCode(raw),
                             OrElse(MarkerCode(cleaned_text, 1),
                                    FirstToken(cleaned_text, 1)))

(***************************************************************************)
(* server._request_key                                                     *)
(***************************************************************************)
DefaultTicker == <<"H","U","B">>
DefaultRecipient == <<"t","e","s","t","@","g","m","a","i","l",".","c","o","m">>

_canonical_ticker(asx_code) ==
    OrElse(normalize_asx_code(asx_code), DefaultTicker)

_canonical_recipient(recipient) ==
    LET value == StrLower(StrStrip(recipient)) IN
    IF value = <<>> THEN DefaultRecipient ELSE value

BoolStr(b) == IF b THEN <<"t","r","u","e">> ELSE <<"f","a","l","s","e">>

_request_key(asx_code, recipient, send_email) ==
    _canonical_ticker(asx_code) \o <<"|">> \o _canonical_recipient(recipient)
        \o <<"|">> \o BoolStr(send_email)


(***************************************************************************)
(* Dictionaries (dict.get, dict.pop, item assignment)                      *)
(***************************************************************************)
EmptyDict == [k \in {} |-> 0]
DictHas(d, k) == k \in DOMAIN d
DictSet(d, k, v) == [x \in (DOMAIN d) \cup {k} |-> IF x = k THEN v ELSE d[x]]
DictPop(d, k) == [x \in (DOMAIN d) \ {k} |-> d[x]]

(***************************************************************************)
(* Requests the callers may issue                                          *)
(***************************************************************************)
Callers == 1..MaxCallers
\* values of the two window settings, in seconds
EnvValues == {0, 1}

Requests == {
    [asx_code |-> <<"b","h","p">>,
     recipient |-> <<" ","A","@","b"," ">>, send_email |-> TRUE],
    [asx_code |-> <<" ","B","h","p",".","a","x">>,
     recipient |-> <<" ","A","@","b"," ">>, send_email |-> TRUE],
    [asx_code |-> <<>>, recipient |-> <<>>, send_email |-> FALSE] }

\* line 117: the key of each request
RequestKey ==
    [req \in Requests |->
        _request_key(req.asx_code, req.recipient, req.send_email)]

NoTask == 0
NoPayload == [run |-> 0, recipient |-> <<>>, sent_email |-> FALSE]
NoOutcome == [kind |-> "none", payload |-> NoPayload, text |-> <<>>,
              deduplicated |-> FALSE, dedupe_reason |-> "",
              dedupe_window_seconds |-> 0]

VARIABLES
    MCP_DEDUPE_SECONDS,        \* environment, read by every call
    MCP_ERROR_DEDUPE_SECONDS,  \* environment, read by every call
    clock,                     \* time.monotonic()
    _RECENT_RESULTS,           \* key -> [ts, result]
    _RECENT_ERRORS,            \* key -> [ts, text]
    _IN_FLIGHT,                \* key -> task
    _IN_FLIGHT_LOCK,           \* 0 when free, else the caller holding it
    tasks,                     \* the asyncio tasks created at line 148
    callers,                   \* the create_asx_report invocations
    conversion,                \* one call of pipeline.convert_docx_to_pdf
    resolution,                \* one call of pipeline._resolve_output_dir
    normalization,             \* calls of pipeline.normalize_asx_code
    keying                     \* calls of server._request_key

coordinator == <<MCP_DEDUPE_SECONDS, MCP_ERROR_DEDUPE_SECONDS, clock,
                 _RECENT_RESULTS, _RECENT_ERRORS, _IN_FLIGHT, _IN_FLIGHT_LOCK,
                 tasks, callers>>

vars == <<coordinator, conversion, resolution, normalization, keying>>

\* the variables of the functions followed on their own
NoCall == [pc |-> "idle"]
FunctionsIdle ==
    /\ conversion = NoCall
    /\ resolution = NoCall
    /\ normalization = NoCall
    /\ keying = NoCall
FunctionsUnchanged ==
    UNCHANGED <<conversion, resolution, normalization, keying>>

(***************************************************************************)
(* server._dedupe_window_seconds, _error_dedupe_window_seconds             *)
(***************************************************************************)
_dedupe_window_seconds ==
    IF MCP_DEDUPE_SECONDS > 0 THEN MCP_DEDUPE_SECONDS ELSE 0
_error_dedupe_window_seconds ==
    IF MCP_ERROR_DEDUPE_SECONDS > 0 THEN MCP_ERROR_DEDUPE_SECONDS ELSE 0

(***************************************************************************)
(* server._prune_cache                                                     *)
(***************************************************************************)
\* a sweep that keeps entries up to three windows old
PruneLate(cache, now, window) ==
    IF window > 0
    THEN [k \in {x \in DOMAIN cache : ~(now - cache[x].ts > window * 3)}
             |-> cache[k]]
    ELSE EmptyDict

\* a sweep that stamps the entries it keeps with the time of the sweep
PruneRefreshing(cache, now, window) ==
    IF window > 0
    THEN [k \in {x \in DOMAIN cache : ~(now - cache[x].ts > window * 2)}
             |-> [cache[k] EXCEPT !.ts = now]]
    ELSE EmptyDict

PruneEntries(cache, now, window) ==
    IF window > 0
    THEN [k \in {x \in DOMAIN cache : ~(now - cache[x].ts > window * 2)}
             |-> cache[k]]
    ELSE EmptyDict

(***************************************************************************)
(* pipeline.run_asx_report, run in a worker thread by server._run_report   *)
(***************************************************************************)
Steps == <<"normalize", "resolve", "capture", "render", "convert", "deliver">>

\* a run that skips the delivery whatever the request says
PlanNeverDeliver(send_email) == SubSeq(Steps, 1, 5)

\* the collaborator calls of one run, in program order
Plan(send_email) == IF send_email THEN Steps ELSE SubSeq(Steps, 1, 5)

\* a step's exception swallowed, the run going on to the next step
ThreadAfterSwallow(ok, n, plan) ==
    IF n = Len(plan) THEN (IF ok THEN "ok" ELSE "failed") ELSE "running"

\* an exception raised by a step leaves run_asx_report at once
ThreadAfter(ok, n, plan) ==
    IF ~ok THEN "failed" ELSE IF n = Len(plan) THEN "ok" ELSE "running"

RunResult(e, t) ==
    [run |-> e, recipient |-> t.recipient, sent_email |-> t.send_email]

\* One collaborator call of a run: the step is invoked, and its outcome
\* decides whether the run goes on.  normalize_asx_code never raises.
StepTask(t, ok) ==
    LET plan == Plan(t.send_email)
        n == Len(t.invoked) + 1
        after == ThreadAfter(ok \/ plan[n] = "normalize", n, plan)
    IN [t EXCEPT !.invoked = Append(t.invoked, plan[n]),
                 !.failed = IF ok \/ plan[n] = "normalize" THEN t.failed
                            ELSE Append(t.failed, plan[n]),
                 !.thread = after]

\* server._run_report: the thread's end completes the task, unless the
\* task was cancelled meanwhile
TaskAfter(t) ==
    IF t.state = "pending" /\ t.thread = "ok" THEN [t EXCEPT !.state = "ok"]
    ELSE IF t.state = "pending" /\ t.thread = "failed"
    THEN [t EXCEPT !.state = "err"]
    ELSE t

\* the whole run, with its n-th collaborator call failing (0: none fails)
RECURSIVE RunToEnd(_, _)
RunToEnd(t, f) ==
    IF t.thread \notin {"new", "running"}
       \/ Len(t.invoked) >= Len(Plan(t.send_email))
    THEN t
    ELSE RunToEnd(StepTask(t, Len(t.invoked) + 1 # f), f)

\* where a run may fail: nowhere, at its first fallible step, at its last
FailPoints(t) == {0, 2, Len(Plan(t.send_email))}

CoordinatorUnchanged ==
    UNCHANGED <<MCP_DEDUPE_SECONDS, MCP_ERROR_DEDUPE_SECONDS, clock,
                _RECENT_RESULTS, _RECENT_ERRORS, _IN_FLIGHT,
                _IN_FLIGHT_LOCK, callers>>
    /\ FunctionsUnchanged

\* server._run_report starts run_asx_report in a worker thread; this
\* happens only if the task was not cancelled before its coroutine ran
StartRun(e) ==
    /\ e \in 1..Len(tasks)
    /\ tasks[e].thread = "new"
    /\ tasks[e].state = "pending"
    /\ tasks' = [tasks EXCEPT ![e].thread = "running"]
    /\ CoordinatorUnchanged

\* run_asx_report runs to its return or to its first exception; the
\* coordinator sees nothing of the run before its end
FinishRun(e, f) ==
    /\ e \in 1..Len(tasks)
    /\ tasks[e].thread = "running"
    /\ f \in FailPoints(tasks[e])
    /\ tasks' = [tasks EXCEPT ![e] = TaskAfter(RunToEnd(tasks[e], f))]
    /\ CoordinatorUnchanged

\* one collaborator call of run_asx_report at a time
RunStep(e, ok) ==
    /\ e \in 1..Len(tasks)
    /\ tasks[e].thread = "running"
    /\ tasks' = [tasks EXCEPT ![e] = TaskAfter(StepTask(tasks[e], ok))]
    /\ CoordinatorUnchanged

\* str(exc) of the exception run e ended with
ExcText(e) == <<tasks[e].failed[1], " failed in run ", e>>


(***************************************************************************)
(* server.create_asx_report                                                *)
(***************************************************************************)
\* a window comparison that excludes the window's last instant
SuccessHitStrict(results, key, now, window) ==
    window > 0 /\ DictHas(results, key) /\ now - results[key].ts < window

\* no success cache lookup at all
SuccessHitNever(results, key, now, window) == FALSE

\* line 130: the success cache answers the call
SuccessHit(results, key, now, window) ==
    window > 0 /\ DictHas(results, key) /\ now - results[key].ts <= window

\* a window comparison that excludes the window's last instant
ErrorHitStrict(errors, key, now, window) ==
    window > 0 /\ DictHas(errors, key) /\ now - errors[key].ts < window

\* line 139: the failure cache suppresses the call
ErrorHit(errors, key, now, window) ==
    window > 0 /\ DictHas(errors, key) /\ now - errors[key].ts <= window

\* a lookup that never finds the entry
InFlightGetMissing(in_flight, key) == NoTask

\* line 146: _IN_FLIGHT.get(request_key)
InFlightGet(in_flight, key) ==
    IF DictHas(in_flight, key) THEN in_flight[key] ELSE NoTask

\* the task awaited inside the `async with` block
LockHeldWhileAwaiting(c, owns_task) == IF owns_task THEN c ELSE 0

\* lines 145-159: the lock is released when the `async with` block ends,
\* before line 162 awaits the task
LockAfterAdmission(c, owns_task) == 0

\* line 148: asyncio.create_task(_run_report(...))
NewTask(key, req) ==
    [key |-> key, recipient |-> req.recipient, send_email |-> req.send_email,
     state |-> "pending", thread |-> "new",
     invoked |-> <<>>, failed |-> <<>>, settled |-> FALSE]

RecentCacheOutcome(result, window) ==
    [kind |-> "result", payload |-> result, text |-> <<>>,
     deduplicated |-> TRUE, dedupe_reason |-> "recent-cache",
     dedupe_window_seconds |-> window]

SuppressedOutcome(prior) ==
    [NoOutcome EXCEPT !.kind = "error",
        !.text = <<"Skipped duplicate retry after recent failure: ", prior>>]

\* every caller annotated as if it owned the task
AwaitOutcomeAllOwners(e, owns_task, window) ==
    IF tasks[e].state = "cancelled"
    THEN [NoOutcome EXCEPT !.kind = "cancelled"]
    ELSE IF tasks[e].state = "err"
    THEN [NoOutcome EXCEPT !.kind = "error",
            !.text = <<"Failed to create Yahoo chart report: ", ExcText(e)>>]
    ELSE [kind |-> "result", payload |-> RunResult(e, tasks[e]),
          text |-> <<>>, deduplicated |-> FALSE, dedupe_reason |-> "none",
          dedupe_window_seconds |-> window]

\* the failure detail given to the owner only
AwaitOutcomeOwnerDetail(e, owns_task, window) ==
    IF tasks[e].state = "cancelled"
    THEN [NoOutcome EXCEPT !.kind = "cancelled"]
    ELSE IF tasks[e].state = "err"
    THEN [NoOutcome EXCEPT !.kind = "error",
            !.text = IF owns_task
                     THEN <<"Failed to create Yahoo chart report: ", ExcText(e)>>
                     ELSE <<"Failed to create Yahoo chart report: ">>]
    ELSE [kind |-> "result", payload |-> RunResult(e, tasks[e]),
          text |-> <<>>, deduplicated |-> ~owns_task,
          dedupe_reason |-> IF owns_task THEN "none" ELSE "in-flight",
          dedupe_window_seconds |-> window]

\* lines 161-187: what `await task` gives a caller once task e is done
AwaitOutcome(e, owns_task, window) ==
    IF tasks[e].state = "cancelled"
    THEN [NoOutcome EXCEPT !.kind = "cancelled"]
    ELSE IF tasks[e].state = "err"
    THEN [NoOutcome EXCEPT !.kind = "error",
            !.text = <<"Failed to create Yahoo chart report: ", ExcText(e)>>]
    ELSE [kind |-> "result", payload |-> RunResult(e, tasks[e]),
          text |-> <<>>, deduplicated |-> ~owns_task,
          dedupe_reason |-> IF owns_task THEN "none" ELSE "in-flight",
          dedupe_window_seconds |-> window]

IdleCaller == [pc |-> "idle", request_key |-> <<>>, owns_task |-> FALSE,
               task |-> NoTask, outcome |-> NoOutcome]

\* lines 117-162: a new invocation, up to its return, its raise or its
\* suspension at `await task`.  It takes the lowest free slot; the number
\* of tasks ever created is capped at MaxTasks.
Call(c, req) ==
    /\ callers[c].pc = "idle"
    /\ \A d \in 1..(c - 1) : callers[d].pc # "idle"
    /\ LET request_key == RequestKey[req]
           success_window == _dedupe_window_seconds
           error_window == _error_dedupe_window_seconds
           now == clock
           results == PruneEntries(_RECENT_RESULTS, now, success_window)
           errors == PruneEntries(_RECENT_ERRORS, now, error_window)
           me == [callers[c] EXCEPT !.request_key = request_key]
       IN /\ _RECENT_RESULTS' = results
          /\ _RECENT_ERRORS' = errors
          /\ IF SuccessHit(results, request_key, now, success_window)
             THEN /\ callers' = [callers EXCEPT ![c] = [me EXCEPT !.pc = "done",
                        !.outcome = RecentCacheOutcome(results[request_key].result,
                                                       success_window)]]
                  /\ UNCHANGED <<_IN_FLIGHT, _IN_FLIGHT_LOCK, tasks>>
             ELSE IF ErrorHit(errors, request_key, now, error_window)
             THEN /\ callers' = [callers EXCEPT ![c] = [me EXCEPT !.pc = "done",
                        !.outcome = SuppressedOutcome(errors[request_key].text)]]
                  /\ UNCHANGED <<_IN_FLIGHT, _IN_FLIGHT_LOCK, tasks>>
             ELSE /\ _IN_FLIGHT_LOCK = 0
                  /\ LET task == InFlightGet(_IN_FLIGHT, request_key) IN
                     IF task = NoTask
                     THEN LET e == Len(tasks) + 1 IN
                          /\ e <= MaxTasks
                          /\ tasks' = Append(tasks, NewTask(request_key, req))
                          /\ _IN_FLIGHT' = DictSet(_IN_FLIGHT, request_key, e)
                          /\ _IN_FLIGHT_LOCK' = LockAfterAdmission(c, TRUE)
                          /\ callers' = [callers EXCEPT ![c] = [me EXCEPT
                                !.pc = "await", !.owns_task = TRUE, !.task = e]]
                     ELSE /\ _IN_FLIGHT_LOCK' = LockAfterAdmission(c, FALSE)
                          /\ UNCHANGED <<_IN_FLIGHT, tasks>>
                          /\ callers' = [callers EXCEPT ![c] =
                                IF tasks[task].state = "pending"
                                THEN [me EXCEPT !.pc = "await", !.task = task]
                                ELSE [me EXCEPT !.pc = "done", !.task = task,
                                        !.outcome = AwaitOutcome(task, FALSE,
                                                                 success_window)]]
    /\ UNCHANGED <<MCP_DEDUPE_SECONDS, MCP_ERROR_DEDUPE_SECONDS, clock>>
    /\ FunctionsUnchanged

\* lines 163-167 and 170-174: the owner's bookkeeping once its task is done
SettleFailure(key, e) ==
    /\ _IN_FLIGHT' = DictPop(_IN_FLIGHT, key)
    /\ _RECENT_ERRORS' = DictSet(_RECENT_ERRORS, key,
                                 [ts |-> clock, text |-> ExcText(e)])
    /\ UNCHANGED _RECENT_RESULTS

\* the success bookkeeping with the in-flight entry left in place
SettleSuccessKeepsEntry(key, e) ==
    /\ UNCHANGED _IN_FLIGHT
    /\ _RECENT_ERRORS' = DictPop(_RECENT_ERRORS, key)
    /\ _RECENT_RESULTS' = DictSet(_RECENT_RESULTS, key,
                    [ts |-> clock, result |-> RunResult(e, tasks[e])])

SettleSuccess(key, e) ==
    /\ _IN_FLIGHT' = DictPop(_IN_FLIGHT, key)
    /\ _RECENT_ERRORS' = DictPop(_RECENT_ERRORS, key)
    /\ _RECENT_RESULTS' = DictSet(_RECENT_RESULTS, key,
                    [ts |-> clock, result |-> RunResult(e, tasks[e])])

\* lines 162-187: a suspended invocation continues after its task is done
Resume(c) ==
    /\ callers[c].pc = "await"
    /\ LET me == callers[c]
           e == me.task
       IN /\ tasks[e].state # "pending"
          /\ callers' = [callers EXCEPT ![c] = [me EXCEPT !.pc = "done",
                !.outcome = AwaitOutcome(e, me.owns_task, _dedupe_window_seconds)]]
          /\ IF me.owns_task /\ tasks[e].state \in {"ok", "err"}
             THEN /\ _IN_FLIGHT_LOCK = 0
                  /\ IF tasks[e].state = "err"
                     THEN SettleFailure(me.request_key, e)
                     ELSE SettleSuccess(me.request_key, e)
                  /\ tasks' = [tasks EXCEPT ![e].settled = TRUE]
             ELSE UNCHANGED <<_IN_FLIGHT, _RECENT_RESULTS, _RECENT_ERRORS, tasks>>
    /\ UNCHANGED <<MCP_DEDUPE_SECONDS, MCP_ERROR_DEDUPE_SECONDS, clock,
                   _IN_FLIGHT_LOCK>>
    /\ FunctionsUnchanged

\* line 162: the invocation is cancelled while suspended in `await task`.
\* Cancelling a coroutine cancels the task it awaits (the task is awaited
\* without asyncio.shield); CancelledError is not an Exception, so lines
\* 163-168 do not run.  A worker thread that has started runs on.
Cancel(c) ==
    /\ callers[c].pc = "await"
    /\ LET e == callers[c].task IN
       /\ tasks' = IF tasks[e].state = "pending"
                   THEN [tasks EXCEPT ![e].state = "cancelled"]
                   ELSE tasks
       /\ callers' = [callers EXCEPT ![c].pc = "done",
                                     ![c].outcome.kind = "stopped"]
    /\ UNCHANGED <<MCP_DEDUPE_SECONDS, MCP_ERROR_DEDUPE_SECONDS, clock,
                   _RECENT_RESULTS, _RECENT_ERRORS, _IN_FLIGHT, _IN_FLIGHT_LOCK>>
    /\ FunctionsUnchanged

\* lines 131, 140, 168, 175, 182: the invocation has handed its result or
\* its error to the client and is gone
Return(c) ==
    /\ callers[c].pc = "done"
    /\ callers' = [callers EXCEPT ![c] = IdleCaller]
    /\ UNCHANGED <<MCP_DEDUPE_SECONDS, MCP_ERROR_DEDUPE_SECONDS, clock,
                   _RECENT_RESULTS, _RECENT_ERRORS, _IN_FLIGHT, _IN_FLIGHT_LOCK,
                   tasks>>
    /\ FunctionsUnchanged

\* a clock that may also be set back
TickEitherWay ==
    /\ \E t \in {clock - 1, clock + 1} : t \in 0..MaxTime /\ clock' = t
    /\ UNCHANGED <<MCP_DEDUPE_SECONDS, MCP_ERROR_DEDUPE_SECONDS,
                   _RECENT_RESULTS, _RECENT_ERRORS, _IN_FLIGHT, _IN_FLIGHT_LOCK,
                   tasks, callers>>
    /\ FunctionsUnchanged

\* time.monotonic() advances
Tick ==
    /\ clock < MaxTime
    /\ clock' = clock + 1
    /\ UNCHANGED <<MCP_DEDUPE_SECONDS, MCP_ERROR_DEDUPE_SECONDS,
                   _RECENT_RESULTS, _RECENT_ERRORS, _IN_FLIGHT, _IN_FLIGHT_LOCK,
                   tasks, callers>>
    /\ FunctionsUnchanged

Init ==
    /\ MCP_DEDUPE_SECONDS \in EnvValues
    /\ MCP_ERROR_DEDUPE_SECONDS \in EnvValues
    /\ clock = 0
    /\ _RECENT_RESULTS = EmptyDict
    /\ _RECENT_ERRORS = EmptyDict
    /\ _IN_FLIGHT = EmptyDict
    /\ _IN_FLIGHT_LOCK = 0
    /\ tasks = <<>>
    /\ callers = [c \in Callers |-> IdleCaller]
    /\ FunctionsIdle

Next ==
    \/ \E c \in Callers, req \in Requests : Call(c, req)
    \/ \E c \in Callers : Resume(c)
    \/ \E c \in Callers : Cancel(c)
    \/ \E c \in Callers : Return(c)
    \/ \E e \in 1..MaxTasks : StartRun(e)
    \/ \E e \in 1..MaxTasks, f \in 0..Len(Steps) : FinishRun(e, f)
    \/ Tick

Spec == Init /\ [][Next]_vars

\* The report pipeline alone: one invocation has started a run, and the
\* run is followed one collaborator call at a time.
InitPipe ==
    /\ MCP_DEDUPE_SECONDS \in EnvValues
    /\ MCP_ERROR_DEDUPE_SECONDS \in EnvValues
    /\ clock = 0
    /\ _RECENT_RESULTS = EmptyDict
    /\ _RECENT_ERRORS = EmptyDict
    /\ _IN_FLIGHT_LOCK = 0
    /\ FunctionsIdle
    /\ \E req \in Requests :
         LET key == RequestKey[req] IN
         /\ tasks = <<NewTask(key, req)>>
         /\ _IN_FLIGHT = DictSet(EmptyDict, key, 1)
         /\ callers = [c \in Callers |->
                IF c = 1 THEN [IdleCaller EXCEPT !.pc = "await",
                                 !.request_key = key, !.owns_task = TRUE,
                                 !.task = 1]
                ELSE IdleCaller]

NextPipe ==
    \/ StartRun(1)
    \/ \E ok \in BOOLEAN : RunStep(1, ok)
    \/ Resume(1)

PipeSpec == InitPipe /\ [][NextPipe]_vars

\* the collaborator call a running run makes next
NextStepOf(t) == Plan(t.send_email)[Len(t.invoked) + 1]

\* The steps that end by themselves: normalize, resolve and render compute
\* locally; capture polls until its deadline (pipeline.py 309-332).  The
\* conversion passes a timeout to LibreOffice only: docx2pdf's convert() is
\* called without one (485, 501, 529), and so is osascript (588-591).
StepsWithDeadline == {"normalize", "resolve", "capture", "render"}

\* a step of run e that cannot block for ever
BoundedStep(e) ==
    /\ e \in 1..Len(tasks)
    /\ tasks[e].thread = "running"
    /\ NextStepOf(tasks[e]) \in StepsWithDeadline
    /\ \E ok \in BOOLEAN : RunStep(e, ok)

\* The pipeline under the scheduling the code guarantees: the worker thread
\* is started, a step with a deadline ends, a caller whose task is done is
\* resumed by the event loop.  A step without a deadline ends only if its
\* collaborator answers.
PipeLiveSpec ==
    /\ InitPipe
    /\ [][NextPipe]_vars
    /\ WF_vars(StartRun(1))
    /\ WF_vars(BoundedStep(1))
    /\ WF_vars(Resume(1))


(***************************************************************************)
(* pipeline.convert_docx_to_pdf, one attempt at a time                     *)
(*                                                                         *)
(* Files are named by their role: "out" is output_pdf, "stage" is          *)
(* staging_pdf; generated_pdf (LibreOffice's natural output) and           *)
(* in_place_pdf (docx2pdf's) are output_pdf itself or another file,        *)
(* depending on the folder and the stem of input_docx.  A file is missing, *)
(* empty, or non-empty and then named after who wrote it.  The output      *)
(* folder exists and is writable (line 442 and the resolve step).          *)
(***************************************************************************)
FilePaths == {"out", "beside", "gen", "stage"}
FileStates == {"missing", "empty", "stale", "libreoffice", "docx2pdf"}

\* lines 397 and 493: where each backend writes when it is not told where
Layouts == {
    [generated_pdf |-> "out",    in_place_pdf |-> "out"],
    [generated_pdf |-> "beside", in_place_pdf |-> "beside"],
    [generated_pdf |-> "out",    in_place_pdf |-> "beside"],
    [generated_pdf |-> "gen",    in_place_pdf |-> "beside"] }

\* values of ASX_PDF_ENGINE after strip() and lower()
PdfEngines == {"", "auto", "libreoffice", "docx2pdf", "pandoc"}

\* lines 455-460
pdf_engine(raw) == IF raw = "" THEN "auto" ELSE raw
allow_libreoffice(engine) == engine \in {"auto", "libreoffice", "soffice"}
allow_docx2pdf(engine) == engine \in {"auto", "docx2pdf", "word", "microsoft-word"}

\* what an external converter leaves at its target: nothing, an empty
\* file, or a non-empty one
Writes == {"none", "empty", "full"}
Written(files, path, wrote, who) ==
    IF wrote = "none" THEN files
    ELSE [files EXCEPT ![path] = IF wrote = "empty" THEN "empty" ELSE who]

FileExists(files, path) == files[path] # "missing"
\* a size test that takes an empty file for a non-empty one
FileNotMissing(files, path) == files[path] # "missing"
FileNonEmpty(files, path) == files[path] \notin {"missing", "empty"}

\* a copy that leaves the source in place
Copied(files, src, dst) == [files EXCEPT ![dst] = files[src]]

\* shutil.move(src, dst)
Moved(files, src, dst) == [files EXCEPT ![dst] = files[src], ![src] = "missing"]

\* a readiness test that forgets the size
OutputExists(files) == FileExists(files, "out")

\* lines 449-453: output_ready()
output_ready(files) == FileNonEmpty(files, "out")

\* lines 480 and 548: the detail of the AsxReportError
Detail(errors, engine) ==
    IF errors # <<>> THEN errors
    ELSE IF ~allow_docx2pdf(engine)
    THEN <<"unsupported ASX_PDF_ENGINE">>
    ELSE <<"unknown error">>

\* what one attempt did: whether its backend was invoked, whether the call
\* raised, what it appended to `errors`, and output_ready() before and
\* after it
Attempt(backend, shape, invoked, raised, recorded, files) ==
    [backend |-> backend, shape |-> shape, invoked |-> invoked,
     raised |-> raised, recorded |-> recorded,
     ready_before |-> output_ready(conversion.files),
     ready_after |-> output_ready(files)]

ConversionOnly == UNCHANGED <<coordinator, resolution, normalization, keying>>

\* lines 388-438: _convert_docx_to_pdf_with_libreoffice; the error text
\* it returns (None when it has none) and the files it leaves
LibreOfficeResult(files, generated, binary, raised, wrote, move_ok) ==
    LET after == Written(files, generated, wrote, "libreoffice") IN
    IF ~binary
    THEN [error |-> "LibreOffice binary not found", files |-> files]
    ELSE IF raised
    THEN [error |-> "LibreOffice convert failed", files |-> after]
    ELSE IF ~FileExists(after, generated)
    THEN [error |-> "LibreOffice did not output", files |-> after]
    ELSE IF ~FileNonEmpty(after, generated)
    THEN [error |-> "LibreOffice output is empty", files |-> after]
    ELSE IF generated # "out" /\ ~move_ok
    THEN [error |-> "LibreOffice output move failed", files |-> after]
    ELSE [error |-> "None",
          files |-> IF generated # "out" THEN Moved(after, generated, "out")
                    ELSE after]

\* lines 468-477
LibreOfficeAttempt ==
    /\ conversion.pc = "libreoffice"
    /\ IF ~allow_libreoffice(conversion.pdf_engine)
       THEN conversion' = [conversion EXCEPT !.pc = "engine_check"]
       ELSE \E binary \in BOOLEAN, raised \in BOOLEAN, wrote \in Writes,
               move_ok \in BOOLEAN :
            LET r == LibreOfficeResult(conversion.files,
                        conversion.layout.generated_pdf,
                        binary, raised, wrote, move_ok)
                a == Attempt("LibreOffice", "libreoffice", binary,
                             binary /\ raised,
                             IF r.error # "None" THEN <<r.error>> ELSE <<>>,
                             r.files)
            IN conversion' = [conversion EXCEPT
                  !.files = r.files,
                  !.attempts = Append(@, a),
                  !.errors = IF r.error # "None" THEN Append(@, r.error) ELSE @,
                  !.pc = IF r.error = "None" /\ output_ready(r.files)
                         THEN "returned" ELSE "engine_check"]
    /\ ConversionOnly

\* lines 479-481
EngineCheck ==
    /\ conversion.pc = "engine_check"
    /\ conversion' =
          IF ~allow_docx2pdf(conversion.pdf_engine)
          THEN [conversion EXCEPT !.pc = "raised",
                  !.detail = Detail(conversion.errors, conversion.pdf_engine)]
          ELSE [conversion EXCEPT !.pc = "direct"]
    /\ ConversionOnly

\* lines 483-490: convert(input_docx, output_pdf)
DirectAttempt ==
    /\ conversion.pc = "direct"
    /\ \E raised \in BOOLEAN, wrote \in Writes :
         LET files == Written(conversion.files, "out", wrote, "docx2pdf")
             recorded == IF raised THEN <<"docx2pdf direct convert failed">>
                         ELSE <<>>
         IN conversion' = [conversion EXCEPT
            !.files = files,
            !.attempts = Append(@, Attempt("docx2pdf", "direct", TRUE, raised,
                                           recorded, files)),
            !.errors = @ \o recorded,
            !.pc = IF output_ready(files) THEN "returned" ELSE "in_place"]
    /\ ConversionOnly

\* lines 492-513: convert(input_docx), then the move to output_pdf
InPlaceAttempt ==
    /\ conversion.pc = "in_place"
    /\ \E raised \in BOOLEAN, wrote \in Writes, move_ok \in BOOLEAN :
         LET in_place_pdf == conversion.layout.in_place_pdf
             cleared == IF in_place_pdf # "out"
                        THEN [conversion.files EXCEPT ![in_place_pdf] = "missing"]
                        ELSE conversion.files
             converted == Written(cleared, in_place_pdf, wrote, "docx2pdf")
             moving == FileNonEmpty(converted, in_place_pdf) /\ in_place_pdf # "out"
             files == IF moving /\ move_ok
                      THEN Moved(converted, in_place_pdf, "out") ELSE converted
             errors1 == IF raised
                        THEN <<"docx2pdf in-place convert failed">> ELSE <<>>
             errors2 == IF moving /\ ~move_ok
                        THEN Append(errors1, "move in-place pdf failed")
                        ELSE errors1
         IN conversion' = [conversion EXCEPT
               !.files = files,
               !.attempts = Append(@, Attempt("docx2pdf", "in_place", TRUE,
                                              raised, errors2, files)),
               !.errors = @ \o errors2,
               !.pc = IF output_ready(files) THEN "returned" ELSE "staging"]
    /\ ConversionOnly

\* lines 515-551: convert(staging_docx), the move to output_pdf, and the
\* AsxReportError when the output is still not ready
StagingAttempt ==
    /\ conversion.pc = "staging"
    /\ \E setup_ok \in BOOLEAN, raised \in BOOLEAN, wrote \in Writes,
          move_ok \in BOOLEAN :
         LET cleared == IF setup_ok
                        THEN [conversion.files EXCEPT !["stage"] = "missing"]
                        ELSE conversion.files
             converted == Written(cleared, "stage", wrote, "docx2pdf")
             moving == FileNonEmpty(converted, "stage")
             files == IF moving /\ move_ok
                      THEN Moved(converted, "stage", "out") ELSE converted
             errors1 == IF ~setup_ok THEN <<"staging setup failed">> ELSE <<>>
             errors2 == IF raised
                        THEN Append(errors1, "docx2pdf staging convert failed")
                        ELSE errors1
             errors3 == IF moving /\ ~move_ok
                        THEN Append(errors2, "staging move failed")
                        ELSE errors2
         IN conversion' = [conversion EXCEPT
               !.files = files,
               !.attempts = Append(@, Attempt("docx2pdf", "staging", TRUE,
                                              raised, errors3, files)),
               !.errors = @ \o errors3,
               !.pc = IF output_ready(files) THEN "returned" ELSE "raised",
               !.detail = IF output_ready(files) THEN @
                          ELSE Detail(conversion.errors \o errors3,
                                      conversion.pdf_engine)]
    /\ ConversionOnly

CoordinatorIdle ==
    /\ MCP_DEDUPE_SECONDS = 0
    /\ MCP_ERROR_DEDUPE_SECONDS = 0
    /\ clock = 0
    /\ _RECENT_RESULTS = EmptyDict
    /\ _RECENT_ERRORS = EmptyDict
    /\ _IN_FLIGHT = EmptyDict
    /\ _IN_FLIGHT_LOCK = 0
    /\ tasks = <<>>
    /\ callers = [c \in Callers |-> IdleCaller]

\* convert_docx_to_pdf is entered: a setting, a file layout, and an
\* output file that is absent or left by an earlier run
InitConv ==
    /\ CoordinatorIdle
    /\ resolution = NoCall /\ normalization = NoCall /\ keying = NoCall
    /\ \E raw \in PdfEngines, layout \in Layouts, old \in {"missing", "stale"} :
         conversion = [pc |-> "libreoffice", pdf_engine |-> pdf_engine(raw),
                       layout |-> layout,
                       files |-> [p \in FilePaths |->
                                    IF p = "out" THEN old ELSE "missing"],
                       errors |-> <<>>, attempts |-> <<>>, detail |-> <<>>]

NextConv ==
    \/ LibreOfficeAttempt
    \/ EngineCheck
    \/ DirectAttempt
    \/ InPlaceAttempt
    \/ StagingAttempt

ConvSpec == InitConv /\ [][NextConv]_vars


(***************************************************************************)
(* pipeline._resolve_output_dir, one write probe at a time                 *)
(*                                                                         *)
(* A path is its text.  Requested paths have no "~", "." or ".."           *)
(* component and no doubled separator, and no folder is a symbolic link.   *)
(***************************************************************************)
Cwd == <<"/","w">>
DefaultDir == <<"o","u","t","p","u","t">>
UserDir == <<"/","h","/","D","e","s","k","t","o","p","/","a","s","x","-","m","c","p","-","o","u","t","p","u","t">>
TempDir == <<"/","t","m","p","/","a","s","x","-","m","c","p","-","o","u","t","p","u","t">>

\* lines 52-55
OUTPUT_DIR_PLACEHOLDERS == {
    <<"/","p","a","t","h","/","t","o","/","l","o","c","a","l","/","d","i","r","e","c","t","o","r","y">>,
    <<"p","a","t","h","/","t","o","/","l","o","c","a","l","/","d","i","r","e","c","t","o","r","y">> }

\* str.replace("\\", "/")
SlashesOnly(s) == [i \in 1..Len(s) |-> IF s[i] = "\\" THEN "/" ELSE s[i]]

\* str.rstrip("/")
RECURSIVE RStripSlash(_)
RStripSlash(s) ==
    IF s # <<>> /\ s[Len(s)] = "/" THEN RStripSlash(SubSeq(s, 1, Len(s) - 1))
    ELSE s

\* str(Path(text)): a trailing separator is dropped, the root is kept
PathText(text) ==
    IF text = <<>> THEN <<".">>
    ELSE IF RStripSlash(text) = <<>> THEN <<"/">>
    ELSE RStripSlash(text)

\* a placeholder test that compares the text as given
PlaceholderExact(output_dir) == output_dir \in OUTPUT_DIR_PLACEHOLDERS

\* lines 594-596
_is_placeholder_output_dir(output_dir) ==
    StrLower(RStripSlash(SlashesOnly(StrStrip(output_dir))))
        \in OUTPUT_DIR_PLACEHOLDERS

\* Path.resolve(strict=False)
ResolvedKey(candidate) ==
    IF candidate # <<>> /\ candidate[1] = "/" THEN candidate
    ELSE Cwd \o <<"/">> \o candidate

\* lines 611-620
Candidates(output_dir) ==
    LET requested_raw == StrStrip(PathText(output_dir))
        requested == PathText(requested_raw)
    IN (IF requested_raw # <<>> /\ ~_is_placeholder_output_dir(requested)
        THEN <<requested>> ELSE <<>>)
       \o <<DefaultDir, UserDir, TempDir>>

\* every candidate kept
KeepAll(candidates) == candidates

\* lines 622-629
RECURSIVE UniqueFrom(_, _, _)
UniqueFrom(candidates, i, seen) ==
    IF i > Len(candidates) THEN <<>>
    ELSE LET key == ResolvedKey(candidates[i]) IN
         IF key \in seen THEN UniqueFrom(candidates, i + 1, seen)
         ELSE <<candidates[i]>> \o UniqueFrom(candidates, i + 1, seen \cup {key})

UniqueCandidates(candidates) == UniqueFrom(candidates, 1, {})

\* the candidates named in the error as first collected
TriedAsCollected(candidates, unique_candidates) == candidates

\* lines 635-638: the paths listed after "Tried: "
Tried(candidates, unique_candidates) == unique_candidates

\* lines 599-607: the folders the process can create and write into
Folders == {ResolvedKey(DefaultDir), UserDir, TempDir, <<"/","d","a","t","a">>}
_can_write_directory(candidate, writable) == ResolvedKey(candidate) \in writable

OutputDirs == {
    DefaultDir,
    <<"/","p","a","t","h","/","t","o","/","l","o","c","a","l","/","d","i","r","e","c","t","o","r","y">>,
    <<"P","a","t","h","/","T","o","/","L","o","c","a","l","/","D","i","r","e","c","t","o","r","y","/">>,
    <<"\\","p","a","t","h","\\","t","o","\\","l","o","c","a","l","\\","d","i","r","e","c","t","o","r","y">>,
    ResolvedKey(DefaultDir),
    <<"/","d","a","t","a">>,
    TempDir }

ResolutionOnly == UNCHANGED <<coordinator, conversion, normalization, keying>>

\* lines 611-629
BuildCandidates ==
    /\ resolution.pc = "start"
    /\ LET candidates == Candidates(resolution.output_dir) IN
       resolution' = [resolution EXCEPT !.pc = "probe",
            !.candidates = candidates,
            !.unique_candidates = UniqueCandidates(candidates)]
    /\ ResolutionOnly

\* lines 631-633: one turn of the loop
Probe ==
    /\ resolution.pc = "probe"
    /\ Len(resolution.probed) < Len(resolution.unique_candidates)
    /\ LET candidate == resolution.unique_candidates[Len(resolution.probed) + 1] IN
       resolution' =
          IF _can_write_directory(candidate, resolution.writable)
          THEN [resolution EXCEPT !.pc = "returned",
                  !.probed = Append(@, candidate), !.result = candidate]
          ELSE [resolution EXCEPT !.probed = Append(@, candidate)]
    /\ ResolutionOnly

\* lines 635-638
RaiseNoWritable ==
    /\ resolution.pc = "probe"
    /\ Len(resolution.probed) = Len(resolution.unique_candidates)
    /\ resolution' = [resolution EXCEPT !.pc = "raised",
          !.detail = Tried(resolution.candidates, resolution.unique_candidates)]
    /\ ResolutionOnly

\* _resolve_output_dir is entered with a requested folder, in a file
\* system where some folders can be written
InitResolve ==
    /\ CoordinatorIdle
    /\ conversion = NoCall /\ normalization = NoCall /\ keying = NoCall
    /\ \E output_dir \in OutputDirs, writable \in SUBSET Folders :
         resolution = [pc |-> "start", output_dir |-> output_dir,
                       writable |-> writable, candidates |-> <<>>,
                       unique_candidates |-> <<>>, probed |-> <<>>,
                       result |-> None, detail |-> <<>>]

NextResolve ==
    \/ BuildCandidates
    \/ Probe
    \/ RaiseNoWritable

ResolveSpec == InitResolve /\ [][NextResolve]_vars

(***************************************************************************)
(* pipeline.normalize_asx_code applied to a text, then to its own result   *)
(***************************************************************************)
NormAlphabet == {"x", "A", "1", ".", " "}

\* every text of at most MaxLen characters of the alphabet
ShortTexts == UNION {[1..n -> NormAlphabet] : n \in 0..MaxLen}

\* URLs and sentences as agents pass them
Phrases == {
    <<"h","t","t","p","s",":","/","/","a","u",".","f","i","n","a","n","c","e",".","y","a","h","o","o",".","c","o","m","/","q","u","o","t","e","/","C","B","A",".","A","X","/">>,
    <<"s","e","e"," ","h","t","t","p","s",":","/","/","h","/","q","u","o","t","e","/","x",".","a","x",".">>,
    <<"h","t","t","p",":","/","/","h","/","q","?","p","=","c","b","a",".","a","x">>,
    <<"h","t","t","p",":","/","/","h","/","q","?","P","=","c","b","a",".","a","x">>,
    <<"h","t","t","p",":","/","/","h","/","?","s","y","m","b","o","l","=","b","h","p",".","a","x","&","p","=","1">>,
    <<"p","l","e","a","s","e"," ","s","e","n","d"," ","m","e"," ","t","h","e"," ","r","e","p","o","r","t"," ","f","o","r"," ","c","s","l">>,
    <<"s","e","n","d"," ","t","h","e"," ","d","a","i","l","y"," ","r","e","p","o","r","t">>,
    <<"a","s","x",":"," ","b","h","p">>,
    <<"t","i","c","k","e","r","-","t","h","e"," ","f","o","r"," ","1","2"," ","w","o","w">>,
    <<"c","o","d","e","x","1"," ","a","@","b",".","c","o","m">>,
    <<"m","a","i","l"," ","a","@","b",".","c","o"," ","f","o","r"," ","c","s","l">> }

NormalizationOnly == UNCHANGED <<coordinator, conversion, resolution, keying>>

\* normalized_code = normalize_asx_code(asx_code)
NormalizeOnce ==
    /\ normalization.pc = "start"
    /\ normalization' = [normalization EXCEPT !.pc = "once",
          !.first = normalize_asx_code(normalization.asx_code)]
    /\ NormalizationOnly

\* the result given back to normalize_asx_code
NormalizeAgain ==
    /\ normalization.pc = "once"
    /\ normalization.first # None
    /\ normalization' = [normalization EXCEPT !.pc = "twice",
          !.second = normalize_asx_code(normalization.first)]
    /\ NormalizationOnly

InitNorm ==
    /\ CoordinatorIdle
    /\ conversion = NoCall /\ resolution = NoCall /\ keying = NoCall
    /\ \E asx_code \in ShortTexts \cup Phrases :
         normalization = [pc |-> "start", asx_code |-> asx_code,
                          first |-> None, second |-> None]

NextNorm ==
    \/ NormalizeOnce
    \/ NormalizeAgain

NormSpec == InitNorm /\ [][NextNorm]_vars

(***************************************************************************)
(* server._request_key applied to two requests                             *)
(***************************************************************************)
KeyCodes == {
    <<"b","h","p">>,
    <<" ","B","H","P","\t">>,
    <<"B","h","p",".","a","x">>,
    <<"h","u","b">>,
    <<>>,
    <<"a","b">>,
    <<"a","b","1">>,
    <<"x",".","a","x">>,
    <<"h","t","t","p",":","/","/","h","/","q","?","p","=","c","b","a",".","a","x">>,
    <<"H","T","T","P",":","/","/","H","/","Q","?","P","=","C","B","A",".","A","X">> }

KeyRecipients == {
    <<" ","A","@","b"," ">>,
    <<"a","@","b">>,
    <<>>,
    <<"2","@","d">>,
    <<"1","2","@","D">>,
    <<"a","|","b","@","c">> }

KeyRequests ==
    [asx_code : KeyCodes, recipient : KeyRecipients, send_email : BOOLEAN]

KeyingOnly == UNCHANGED <<coordinator, conversion, resolution, normalization>>

\* line 117, for each of the two requests
ComputeKeys ==
    /\ keying.pc = "start"
    /\ keying' = [keying EXCEPT !.pc = "keyed",
          !.key_a = _request_key(keying.a.asx_code, keying.a.recipient,
                                 keying.a.send_email),
          !.key_b = _request_key(keying.b.asx_code, keying.b.recipient,
                                 keying.b.send_email)]
    /\ KeyingOnly

InitKey ==
    /\ CoordinatorIdle
    /\ conversion = NoCall /\ resolution = NoCall /\ normalization = NoCall
    /\ \E a \in KeyRequests, b \in KeyRequests :
         keying = [pc |-> "start", a |-> a, b |-> b,
                   key_a |-> <<>>, key_b |-> <<>>]

NextKey == ComputeKeys

KeySpec == InitKey /\ [][NextKey]_vars

(***************************************************************************)
(* Vocabulary of the properties                                            *)
(***************************************************************************)
TaskIds == 1..Len(tasks)
Keys == {RequestKey[req] : req \in Requests}

\* the pipeline execution of task e has neither ended nor been called off
Unfinished(e) ==
    \/ tasks[e].thread = "running"
    \/ tasks[e].thread = "new" /\ tasks[e].state = "pending"

Finished(e) == tasks[e].thread \in {"ok", "failed"}

\* invocation c starts in this step
CallStep(c) == callers[c].pc = "idle" /\ callers'[c].pc # "idle"

\* this step creates a task
TaskCreated == Len(tasks') = Len(tasks) + 1

Count(seq, x) == Cardinality({i \in 1..Len(seq) : seq[i] = x})

(***************************************************************************)
(* C1  For every identity at most one pipeline execution is running at     *)
(* any instant: a task for K is created only when _IN_FLIGHT has no entry  *)
(* for K, and an entry is removed only after its execution has completed.  *)
(***************************************************************************)
C1_OneRunning ==
    \A e1 \in TaskIds, e2 \in TaskIds :
        (e1 # e2 /\ tasks[e1].key = tasks[e2].key)
            => ~(Unfinished(e1) /\ Unfinished(e2))

C1_Step ==
    /\ TaskCreated => tasks'[Len(tasks')].key \notin DOMAIN _IN_FLIGHT
    /\ \A k \in DOMAIN _IN_FLIGHT :
          k \notin DOMAIN _IN_FLIGHT' => Finished(_IN_FLIGHT[k])

\* C1: at most one running execution per identity, in every state and step
C1_AtMostOneExecution == [](C1_OneRunning) /\ [][C1_Step]_vars

\* a second call for K waits on the running execution of K
C1_Witness ==
    \E c \in Callers :
        /\ callers[c].pc = "await" /\ ~callers[c].owns_task
        /\ tasks[callers[c].task].thread = "running"


(***************************************************************************)
(* C2  Calls with the key of an execution in flight start no execution of  *)
(* their own but attach to it; the owner's result carries                  *)
(* deduplicated=false, reason none, and an attached caller's result is the *)
(* same payload with deduplicated=true, reason in-flight.                  *)
(***************************************************************************)
C2_Results ==
    /\ \A c \in Callers :
          callers[c].task # NoTask =>
             tasks[callers[c].task].key = callers[c].request_key
    /\ \A c1 \in Callers, c2 \in Callers :
          (c1 # c2 /\ callers[c1].task # NoTask
                   /\ callers[c1].task = callers[c2].task)
             => ~(callers[c1].owns_task /\ callers[c2].owns_task)
    /\ \A c \in Callers :
          LET o == callers[c].outcome IN
          (callers[c].pc = "done" /\ o.kind = "result"
              /\ callers[c].task # NoTask)
             => /\ o.payload.run = callers[c].task
                /\ o.payload.recipient = tasks[callers[c].task].recipient
                /\ callers[c].owns_task =>
                      (~o.deduplicated /\ o.dedupe_reason = "none")
                /\ ~callers[c].owns_task =>
                      (o.deduplicated /\ o.dedupe_reason = "in-flight")

C2_Step ==
    \A c \in Callers :
        (CallStep(c) /\ callers'[c].request_key \in DOMAIN _IN_FLIGHT)
            => /\ tasks' = tasks
               /\ callers'[c].task = _IN_FLIGHT[callers'[c].request_key]
               /\ ~callers'[c].owns_task

\* C2: one execution serves the owner and every caller that attached
C2_SingleFlight == [](C2_Results) /\ [][C2_Step]_vars

\* the owner and an attached caller both hold the result of one execution
C2_Witness ==
    \E c1 \in Callers, c2 \in Callers :
        /\ callers[c1].pc = "done" /\ callers[c2].pc = "done"
        /\ callers[c1].owns_task /\ ~callers[c2].owns_task
        /\ callers[c1].task = callers[c2].task
        /\ callers[c1].outcome.kind = "result"
        /\ callers[c2].outcome.kind = "result"
        /\ callers[c2].outcome.dedupe_reason = "in-flight"
        /\ Len(tasks) = 1

(***************************************************************************)
(* C3  With a success window greater than 0, a call for K made no later    *)
(* than the window after a success for K was recorded returns the recorded *)
(* result annotated deduplicated=true, reason recent-cache, and creates no *)
(* task.                                                                   *)
(***************************************************************************)
C3_Step ==
    \A c \in Callers :
        LET k == callers'[c].request_key IN
        (/\ CallStep(c)
         /\ _dedupe_window_seconds > 0
         /\ k \in DOMAIN _RECENT_RESULTS
         /\ clock - _RECENT_RESULTS[k].ts <= _dedupe_window_seconds)
            => /\ callers'[c].pc = "done"
               /\ callers'[c].outcome.kind = "result"
               /\ callers'[c].outcome.payload = _RECENT_RESULTS[k].result
               /\ callers'[c].outcome.deduplicated
               /\ callers'[c].outcome.dedupe_reason = "recent-cache"
               /\ tasks' = tasks
               /\ _IN_FLIGHT' = _IN_FLIGHT

\* C3: every call within the success window is answered from the cache
C3_RecentCache == [][C3_Step]_vars

\* a call answered from the success cache at the window's last instant
C3_Witness ==
    \E c \in Callers :
        /\ callers[c].pc = "done"
        /\ callers[c].outcome.dedupe_reason = "recent-cache"
        /\ callers[c].request_key \in DOMAIN _RECENT_RESULTS
        /\ clock - _RECENT_RESULTS[callers[c].request_key].ts
              = _dedupe_window_seconds

(***************************************************************************)
(* C4  (as stated) A call for K within the failure window after a recorded *)
(* failure fails at once with the duplicate-retry error carrying the prior *)
(* error text and creates no task; a call after the window has elapsed     *)
(* creates a task.                                                         *)
(***************************************************************************)
C4_Suppressed(c, k) ==
    /\ callers'[c].pc = "done"
    /\ callers'[c].outcome.kind = "error"
    /\ callers'[c].outcome.text =
          <<"Skipped duplicate retry after recent failure: ",
            _RECENT_ERRORS[k].text>>
    /\ tasks' = tasks
    /\ _IN_FLIGHT' = _IN_FLIGHT

C4_StepAsStated ==
    \A c \in Callers :
        LET k == callers'[c].request_key IN
        (CallStep(c) /\ k \in DOMAIN _RECENT_ERRORS) =>
            IF clock - _RECENT_ERRORS[k].ts <= _error_dedupe_window_seconds
            THEN C4_Suppressed(c, k)
            ELSE TaskCreated

\* C4 as stated, for every call
C4_AsStated == [][C4_StepAsStated]_vars

(***************************************************************************)
(* C4  (amended) With a failure window greater than 0, a call for K within *)
(* the window after a recorded failure fails at once with the              *)
(* duplicate-retry error carrying the prior error text and creates no      *)
(* task; any other call for K made while the failure is still recorded     *)
(* creates a task unless an execution for K is in flight, and then it      *)
(* attaches to that execution.                                             *)
(***************************************************************************)
C4_StepAmended ==
    \A c \in Callers :
        LET k == callers'[c].request_key IN
        (CallStep(c) /\ k \in DOMAIN _RECENT_ERRORS) =>
            IF /\ _error_dedupe_window_seconds > 0
               /\ clock - _RECENT_ERRORS[k].ts <= _error_dedupe_window_seconds
            THEN C4_Suppressed(c, k)
            ELSE IF k \in DOMAIN _IN_FLIGHT
            THEN /\ tasks' = tasks
                 /\ callers'[c].task = _IN_FLIGHT[k]
                 /\ ~callers'[c].owns_task
            ELSE /\ TaskCreated
                 /\ callers'[c].owns_task
                 /\ tasks'[Len(tasks')].key = k

\* C4 amended, for every call
C4_RetrySuppression == [][C4_StepAmended]_vars

\* a retry suppressed at the failure window's last instant, after an
\* earlier retry outside no window
C4_Witness ==
    \E c \in Callers :
        /\ callers[c].pc = "done"
        /\ callers[c].outcome.kind = "error"
        /\ callers[c].outcome.text[1] =
              "Skipped duplicate retry after recent failure: "
        /\ callers[c].request_key \in DOMAIN _RECENT_ERRORS
        /\ clock - _RECENT_ERRORS[callers[c].request_key].ts
              = _error_dedupe_window_seconds


(***************************************************************************)
(* C5  Deliveries are made by pipeline executions only, at most one per    *)
(* execution.  While an execution for K is unfinished or unsettled, and    *)
(* until the success window after its recorded success has ended, no       *)
(* other execution for K exists that could deliver: exactly one delivery   *)
(* happens for K in that period.                                           *)
(***************************************************************************)
Delivered(e) == Count(tasks[e].invoked, "deliver")

C5_OneDelivery ==
    /\ \A e \in TaskIds :
          /\ Delivered(e) <= 1
          /\ Delivered(e) = 1 => tasks[e].send_email
          /\ (tasks[e].thread = "ok" /\ tasks[e].send_email) => Delivered(e) = 1
    \* an execution for K is created only after the earlier ones for K have
    \* ended and been settled
    /\ \A e1 \in TaskIds, e2 \in TaskIds :
          (e1 < e2 /\ tasks[e1].key = tasks[e2].key)
             => Finished(e1) /\ tasks[e1].settled
    \* within the success window the recorded execution is the last for K
    /\ \A k \in DOMAIN _RECENT_RESULTS :
          (/\ _dedupe_window_seconds > 0
           /\ clock - _RECENT_RESULTS[k].ts <= _dedupe_window_seconds)
             => LET r == _RECENT_RESULTS[k].result.run IN
                /\ tasks[r].key = k
                /\ tasks[r].thread = "ok"
                /\ \A e \in TaskIds : tasks[e].key = k => e <= r
    \* a caller answered from the cache, suppressed or attached owns no task
    /\ \A c \in Callers :
          LET o == callers[c].outcome IN
          /\ o.dedupe_reason = "in-flight" => ~callers[c].owns_task
          /\ (\/ o.dedupe_reason = "recent-cache"
              \/ o.text # <<>> /\ o.text[1] # "Failed to create Yahoo chart report: ")
                => ~callers[c].owns_task /\ callers[c].task = NoTask

\* a repeated call for a delivered report is answered from the cache: one
\* execution, one delivery
C5_Witness ==
    \E c \in Callers :
        /\ callers[c].pc = "done"
        /\ callers[c].outcome.dedupe_reason = "recent-cache"
        /\ callers[c].outcome.payload.sent_email
        /\ Len(tasks) = 1
        /\ Delivered(1) = 1

(***************************************************************************)
(* C6  All callers of one execution that waited for its end observe the    *)
(* same outcome: the same payload on success, the same failure detail on   *)
(* failure.                                                                *)
(***************************************************************************)
C6_SameOutcome ==
    \A c1 \in Callers, c2 \in Callers :
        (/\ callers[c1].pc = "done" /\ callers[c2].pc = "done"
         /\ callers[c1].task # NoTask
         /\ callers[c1].task = callers[c2].task
         /\ callers[c1].outcome.kind # "stopped"
         /\ callers[c2].outcome.kind # "stopped")
            => /\ callers[c1].outcome.kind = callers[c2].outcome.kind
               /\ callers[c1].outcome.payload = callers[c2].outcome.payload
               /\ callers[c1].outcome.text = callers[c2].outcome.text
               /\ callers[c1].outcome.kind = "error" =>
                     /\ Len(callers[c1].outcome.text) = 2
                     /\ callers[c1].outcome.text[2] = ExcText(callers[c1].task)

\* the owner and an attached caller both hold the error of one execution
C6_Witness ==
    \E c1 \in Callers, c2 \in Callers :
        /\ callers[c1].pc = "done" /\ callers[c2].pc = "done"
        /\ callers[c1].owns_task /\ ~callers[c2].owns_task
        /\ callers[c1].task = callers[c2].task
        /\ callers[c1].outcome.kind = "error"
        /\ callers[c2].outcome.kind = "error"

(***************************************************************************)
(* C7  (as stated) No identity has an entry in the success cache and in    *)
(* the failure cache at once.                                              *)
(***************************************************************************)
C7_CachesExclusive ==
    \A k \in Keys : ~(k \in DOMAIN _RECENT_RESULTS /\ k \in DOMAIN _RECENT_ERRORS)

(***************************************************************************)
(* C8  (as stated) When a caller stops waiting, the execution it waited    *)
(* on is not cancelled, and once that execution has ended and no caller    *)
(* waits for it any more, its in-flight entry is gone and its outcome has  *)
(* been written to a cache.                                                *)
(***************************************************************************)
C8_StopLeavesExecution ==
    \A c \in Callers :
        (callers[c].pc = "done" /\ callers[c].outcome.kind = "stopped")
            => LET e == callers[c].task IN
               /\ tasks[e].state # "cancelled"
               /\ (/\ Finished(e)
                   /\ \A d \in Callers :
                         ~(callers[d].pc = "await" /\ callers[d].task = e))
                     => /\ tasks[e].settled
                        /\ InFlightGet(_IN_FLIGHT, tasks[e].key) # e

(***************************************************************************)
(* C9  The admission lock is free whenever an invocation is suspended or a  *)
(* pipeline execution is unfinished, so a call for another identity is     *)
(* admitted and runs while an execution is in flight.                      *)
(***************************************************************************)
C9_LockNeverHeldAcrossAwait ==
    /\ ((\E c \in Callers : callers[c].pc = "await")
            \/ (\E e \in TaskIds : Unfinished(e)))
          => _IN_FLIGHT_LOCK = 0
    \* while a slot and the task budget allow a call at all, a call with
    \* any request can be made, whatever is in flight
    /\ ((\E c \in Callers : callers[c].pc = "idle") /\ Len(tasks) < MaxTasks)
          => \A req \in Requests : ENABLED (\E c \in Callers : Call(c, req))

\* K2's execution was created, ran and was settled while K1's still runs
C9_Witness ==
    \E e1 \in TaskIds, e2 \in TaskIds :
        /\ e1 < e2
        /\ tasks[e1].key # tasks[e2].key
        /\ tasks[e1].thread = "running"
        /\ tasks[e2].thread = "ok" /\ tasks[e2].settled

(***************************************************************************)
(* C10  run_asx_report invokes its steps in the order normalize, resolve,  *)
(* capture, render, convert, deliver, each at most once, and a step only   *)
(* if every earlier step succeeded; when no output location is writable    *)
(* capture is never invoked.                                               *)
(***************************************************************************)
C10_StepOrder ==
    \A e \in TaskIds :
        LET t == tasks[e]
            n == Len(t.invoked)
        IN /\ n <= Len(Steps)
           /\ \A i \in 1..n : t.invoked[i] = Steps[i]
           /\ (~t.send_email) => "deliver" \notin {t.invoked[i] : i \in 1..n}
           \* a failed step is the last step invoked
           /\ \A i \in 1..Len(t.failed) : t.failed[i] = t.invoked[n]
           /\ Len(t.failed) <= 1
           /\ t.failed # <<>> => t.thread = "failed"
           /\ "resolve" \in {t.failed[i] : i \in 1..Len(t.failed)}
                 => "capture" \notin {t.invoked[i] : i \in 1..n}
           /\ t.thread = "ok" => t.invoked = Plan(t.send_email)

\* the run ended at the resolve step, with capture never invoked
C10_Witness ==
    /\ Len(tasks) = 1
    /\ tasks[1].thread = "failed"
    /\ tasks[1].failed = <<"resolve">>
    /\ tasks[1].invoked = <<"normalize", "resolve">>

(***************************************************************************)
(* C11  With send_email true a run succeeds only if the delivery was       *)
(* invoked, after a successful conversion, and succeeded; a failed         *)
(* delivery fails the run and the coordinator records it as a failure of   *)
(* the identity.  With send_email false the delivery is never invoked.     *)
(***************************************************************************)
C11_DeliveryRequired ==
    \A e \in TaskIds :
        LET t == tasks[e]
            n == Len(t.invoked)
            called == {t.invoked[i] : i \in 1..n}
        IN /\ (t.thread = "ok" /\ t.send_email)
                 => /\ n >= 2
                    /\ t.invoked[n] = "deliver"
                    /\ t.invoked[n - 1] = "convert"
                    /\ t.failed = <<>>
           /\ "deliver" \in called
                 => /\ t.send_email
                    /\ n >= 2 /\ t.invoked[n - 1] = "convert"
                    /\ "convert" \notin {t.failed[i] : i \in 1..Len(t.failed)}
           /\ t.failed = <<"deliver">>
                 => /\ t.thread = "failed"
                    /\ t.state # "ok"
                    /\ t.settled
                          => /\ DictHas(_RECENT_ERRORS, t.key)
                             /\ _RECENT_ERRORS[t.key].text = ExcText(e)
                             /\ ~DictHas(_RECENT_RESULTS, t.key)
                             /\ \A c \in Callers :
                                   (callers[c].pc = "done" /\ callers[c].task = e)
                                      => callers[c].outcome.kind = "error"
           /\ ~t.send_email => "deliver" \notin called

\* a run whose delivery failed after a successful conversion, recorded by
\* the coordinator as a failure of its identity
C11_Witness ==
    /\ Len(tasks) = 1
    /\ tasks[1].failed = <<"deliver">>
    /\ tasks[1].invoked = Steps
    /\ tasks[1].settled
    /\ DictHas(_RECENT_ERRORS, tasks[1].key)
    /\ callers[1].outcome.kind = "error"

(***************************************************************************)
(* C12  convert_docx_to_pdf returns only in a state where the destination  *)
(* file exists and is non-empty; in every other case it ends by raising    *)
(* an error.                                                               *)
(***************************************************************************)
ConvEnded == conversion.pc \in {"returned", "raised"}

C12_SuccessMeansOutput ==
    /\ conversion.pc = "returned"
          => conversion.files["out"] \notin {"missing", "empty"}
    /\ (ConvEnded /\ conversion.files["out"] \in {"missing", "empty"})
          => conversion.pc = "raised" /\ conversion.detail # <<>>
    \* the function ends: no attempt is left to make only when it has
    \* returned or raised
    /\ ~ConvEnded => ENABLED NextConv

\* a conversion that returned the output of its last attempt after an
\* earlier attempt had left an empty destination
C12_Witness ==
    /\ conversion.pc = "returned"
    /\ conversion.files["out"] = "docx2pdf"
    /\ Len(conversion.attempts) = 4
    /\ \E i \in 1..3 :
          /\ ~conversion.attempts[i].ready_after
          /\ ~conversion.attempts[i].raised

(***************************************************************************)
(* C13  (as stated) An attempt whose backend reported success while the    *)
(* output is missing or empty is treated as a failure, recorded among the  *)
(* attempt errors, and followed by the next permitted backend; when that   *)
(* backend produces a non-empty output, the result is that output.         *)
(***************************************************************************)
C13_SilentFailureRecorded ==
    conversion.pc # "idle" =>
    \A i \in 1..Len(conversion.attempts) :
        LET a == conversion.attempts[i] IN
        (a.invoked /\ ~a.raised /\ ~a.ready_after)
           => /\ a.recorded # <<>>
              /\ \A j \in 1..Len(a.recorded) :
                    \E k \in 1..Len(conversion.errors) :
                        conversion.errors[k] = a.recorded[j]
              /\ conversion.pc = "returned"
                    => /\ i < Len(conversion.attempts)
                       /\ conversion.files["out"] # "stale"

(***************************************************************************)
(* C14  (as stated) When every permitted backend has failed, each attempt  *)
(* has contributed an entry naming its backend, and the error raised       *)
(* contains all of them.                                                   *)
(***************************************************************************)
BackendNamedIn(msg) ==
    IF msg \in {"LibreOffice binary not found", "LibreOffice convert failed",
                "LibreOffice did not output", "LibreOffice output is empty",
                "LibreOffice output move failed"}
    THEN "LibreOffice"
    ELSE IF msg \in {"docx2pdf direct convert failed",
                     "docx2pdf in-place convert failed",
                     "docx2pdf staging convert failed"}
    THEN "docx2pdf"
    ELSE ""

C14_EveryBackendMentioned ==
    conversion.pc = "raised" =>
    \A i \in 1..Len(conversion.attempts) :
        LET a == conversion.attempts[i] IN
        /\ \E j \in 1..Len(a.recorded) : BackendNamedIn(a.recorded[j]) = a.backend
        /\ \E k \in 1..Len(conversion.detail) :
              BackendNamedIn(conversion.detail[k]) = a.backend

(***************************************************************************)
(* C15  _resolve_output_dir probes, in this order, the requested folder    *)
(* (left out when it is a placeholder), the default folder, the per-user   *)
(* folder and the temp folder, a folder whose resolved form was seen       *)
(* earlier being dropped, and returns the first one whose probe succeeds:  *)
(* a placeholder is never probed, and nothing is probed after the first    *)
(* writable folder.                                                        *)
(***************************************************************************)
PlaceholderRequests == {d \in OutputDirs :
    \E p \in OUTPUT_DIR_PLACEHOLDERS :
        StrLower(SlashesOnly(RStripSlash(d))) = p}

\* s2 is s1 without some of its elements
RECURSIVE IsSubsequence(_, _)
IsSubsequence(s2, s1) ==
    IF s2 = <<>> THEN TRUE
    ELSE IF s1 = <<>> THEN FALSE
    ELSE IF Head(s2) = Head(s1) THEN IsSubsequence(Tail(s2), Tail(s1))
    ELSE IsSubsequence(s2, Tail(s1))

C15_ProbeOrder ==
    resolution.pc \in {"probe", "returned", "raised"} =>
    LET r == resolution
        requested == RStripSlash(r.output_dir)
        full == <<requested, DefaultDir, UserDir, TempDir>>
        order == IF r.output_dir \in PlaceholderRequests THEN Tail(full) ELSE full
        u == r.unique_candidates
        n == Len(r.probed)
    IN \* the candidates: the stated order, one per resolved form
       /\ IsSubsequence(u, order)
       /\ \A i \in 1..Len(u), j \in 1..Len(u) :
             i # j => ResolvedKey(u[i]) # ResolvedKey(u[j])
       /\ \A i \in 1..Len(order) :
             \E j \in 1..Len(u) :
                /\ ResolvedKey(u[j]) = ResolvedKey(order[i])
                /\ \A k \in 1..(i - 1) :
                      ResolvedKey(order[k]) = ResolvedKey(order[i]) => u[j] = order[k]
       \* the probes: in that order, up to the first writable folder
       /\ n <= Len(u) /\ r.probed = SubSeq(u, 1, n)
       /\ \A i \in 1..(n - 1) : ResolvedKey(r.probed[i]) \notin r.writable
       /\ r.pc = "returned"
             => /\ n >= 1 /\ r.result = r.probed[n]
                /\ ResolvedKey(r.result) \in r.writable
       /\ r.pc # "returned"
             => \A i \in 1..n : ResolvedKey(r.probed[i]) \notin r.writable
       /\ r.output_dir \in PlaceholderRequests
             => \A i \in 1..n : r.probed[i] # requested

\* a placeholder was requested, the default folder cannot be written, and
\* the per-user folder is returned
C15_Witness ==
    /\ resolution.pc = "returned"
    /\ resolution.output_dir \in PlaceholderRequests
    /\ resolution.probed = <<DefaultDir, UserDir>>
    /\ resolution.result = UserDir
    /\ TempDir \in resolution.writable

(***************************************************************************)
(* C16  When no candidate folder is writable _resolve_output_dir raises    *)
(* an error that lists every folder probed, in the order probed, and       *)
(* returns no folder.                                                      *)
(***************************************************************************)
C16_AllTriedListed ==
    /\ resolution.pc = "raised"
          => /\ resolution.detail = resolution.probed
             /\ resolution.probed # <<>>
             /\ resolution.result = None
             /\ \A i \in 1..Len(resolution.unique_candidates) :
                   resolution.unique_candidates[i] = resolution.detail[i]
    /\ (/\ resolution.pc = "probe"
        /\ Len(resolution.probed) = Len(resolution.unique_candidates))
          => ENABLED RaiseNoWritable /\ ~ENABLED Probe
    /\ resolution.pc = "returned" => resolution.result # None

\* no folder is writable and the requested folder is the default folder
\* under another name: three folders probed and listed
C16_Witness ==
    /\ resolution.pc = "raised"
    /\ resolution.output_dir = ResolvedKey(DefaultDir)
    /\ resolution.detail = <<ResolvedKey(DefaultDir), UserDir, TempDir>>

(***************************************************************************)
(* C17  (as stated) normalize_asx_code is idempotent on its own results:   *)
(* whenever normalize_asx_code(x) is not None, normalizing it again gives  *)
(* the same code.                                                          *)
(***************************************************************************)
C17_Idempotent ==
    normalization.pc = "twice" => normalization.second = normalization.first

(***************************************************************************)
(* C18  (as stated) Two requests whose code and recipient differ only in   *)
(* letter case or surrounding whitespace, with equal send_email flags,     *)
(* have the same key; two requests whose canonical (ticker, recipient,     *)
(* send_email) triples differ have different keys.                         *)
(***************************************************************************)
SameButCaseAndSpace(s1, s2) == StrLower(StrStrip(s1)) = StrLower(StrStrip(s2))

CanonicalTriple(req) ==
    <<_canonical_ticker(req.asx_code), _canonical_recipient(req.recipient),
      req.send_email>>

C18_Stable ==
    keying.pc = "keyed" =>
        ((/\ SameButCaseAndSpace(keying.a.asx_code, keying.b.asx_code)
          /\ SameButCaseAndSpace(keying.a.recipient, keying.b.recipient)
          /\ keying.a.send_email = keying.b.send_email)
            => keying.key_a = keying.key_b)

C18_Distinct ==
    keying.pc = "keyed" =>
        (CanonicalTriple(keying.a) # CanonicalTriple(keying.b)
            => keying.key_a # keying.key_b)

C18_StableAndDistinct == C18_Stable /\ C18_Distinct

\* C19: every blocking external step is bounded by a deadline of its own, so
\* the execution and the caller waiting on it eventually finish.
C19_CallerFinishes == <>(callers[1].pc = "done")

\* the steps with a deadline do end: a run gets as far as the conversion
RunReachesConversion ==
    <>(tasks[1].thread \in {"ok", "failed"}
       \/ (tasks[1].thread = "running"
           /\ NextStepOf(tasks[1]) \in {"convert", "deliver"}))

(***************************************************************************)
(* C20  Every invocation of create_asx_report begins with the sweep, for   *)
(* all identities and before either cache is consulted: right after it no  *)
(* success entry is older than twice the success window and no failure     *)
(* entry older than twice the failure window.                              *)
(***************************************************************************)
NoStaleEntry(cache, now, window) ==
    \A k \in DOMAIN cache : now - cache[k].ts <= 2 * window

C20_AfterCall ==
    \A c \in Callers :
        CallStep(c) =>
            /\ NoStaleEntry(_RECENT_RESULTS', clock, _dedupe_window_seconds)
            /\ NoStaleEntry(_RECENT_ERRORS', clock,
                            _error_dedupe_window_seconds)
            \* the answer from a cache is taken from a swept cache
            /\ callers'[c].outcome.dedupe_reason = "recent-cache"
                  => callers'[c].request_key \in DOMAIN _RECENT_RESULTS'
            /\ (callers'[c].pc = "done" /\ callers'[c].task = NoTask
                /\ callers'[c].outcome.kind = "error")
                  => callers'[c].request_key \in DOMAIN _RECENT_ERRORS'

\* C20: the sweep at the start of every invocation leaves no stale entry
C20_SweepOnEveryCall == [][C20_AfterCall]_vars

\* an invocation for one identity has swept the success entry of another
C20_Witness ==
    /\ _dedupe_window_seconds > 0
    /\ \E e1 \in TaskIds, e2 \in TaskIds :
          /\ tasks[e1].settled /\ tasks[e1].state = "ok"
          /\ tasks[e1].key \notin DOMAIN _RECENT_RESULTS
          /\ tasks[e2].key # tasks[e1].key
          /\ \E c \in Callers : callers[c].pc = "await" /\ callers[c].task = e2
                                /\ callers[c].owns_task
                                /\ tasks[e2].thread = "new"

(***************************************************************************)
(* C21  The in-flight entry of an execution is removed before the cache    *)
(* entry written from its outcome: no state holds both, and the step that  *)
(* writes the cache entry starts from a state that holds the in-flight     *)
(* entry and ends in one that does not.                                    *)
(***************************************************************************)
\* the cache entries written from the outcome of execution e
SuccessEntryOf(e) ==
    /\ tasks[e].key \in DOMAIN _RECENT_RESULTS
    /\ _RECENT_RESULTS[tasks[e].key].result.run = e
FailureEntryOf(e) ==
    /\ tasks[e].failed # <<>>
    /\ tasks[e].key \in DOMAIN _RECENT_ERRORS
    /\ _RECENT_ERRORS[tasks[e].key].text = ExcText(e)
InFlightEntryOf(e) ==
    /\ tasks[e].key \in DOMAIN _IN_FLIGHT
    /\ _IN_FLIGHT[tasks[e].key] = e

C21_NeverBoth ==
    \A e \in TaskIds :
        ~(InFlightEntryOf(e) /\ (SuccessEntryOf(e) \/ FailureEntryOf(e)))

C21_WriteStep ==
    \A e \in TaskIds :
        (~tasks[e].settled /\ tasks'[e].settled)
            => /\ InFlightEntryOf(e)
               /\ tasks[e].key \notin DOMAIN _IN_FLIGHT'

\* C21: in-flight entry and settled entry of one execution never coexist
C21_RemovedBeforeWritten == [](C21_NeverBoth) /\ [][C21_WriteStep]_vars

\* one execution's failure and another's success are cached, both entries
\* of the in-flight map gone
C21_Witness ==
    \E e1 \in TaskIds, e2 \in TaskIds :
        /\ SuccessEntryOf(e1) /\ FailureEntryOf(e2)
        /\ tasks[e1].settled /\ tasks[e2].settled
        /\ _IN_FLIGHT = EmptyDict

(***************************************************************************)
(* C22  convert_docx_to_pdf invokes only backends that ASX_PDF_ENGINE      *)
(* permits, LibreOffice before docx2pdf; once an attempt leaves a valid    *)
(* output no later backend or attempt is invoked; a setting that permits   *)
(* no backend invokes none and the conversion fails.                       *)
(***************************************************************************)
Permitted(engine, backend) ==
    IF backend = "LibreOffice" THEN allow_libreoffice(engine)
    ELSE allow_docx2pdf(engine)

\* attempt i was invoked and turned a missing or empty output into a valid one
LeavesOutput(i) ==
    LET a == conversion.attempts[i] IN
    a.invoked /\ ~a.ready_before /\ a.ready_after

C22_OnlyPermittedInOrder ==
    LET at == conversion.attempts
        n == Len(at)
    IN /\ \A i \in 1..n :
             at[i].invoked => Permitted(conversion.pdf_engine, at[i].backend)
       /\ \A i \in 1..n, j \in 1..n :
             (i < j /\ at[j].backend = "LibreOffice")
                => at[i].backend = "LibreOffice"
       /\ (/\ ~allow_libreoffice(conversion.pdf_engine)
           /\ ~allow_docx2pdf(conversion.pdf_engine))
             => /\ \A i \in 1..n : ~at[i].invoked
                /\ conversion.pc # "returned"
                /\ ENABLED NextConv \/ conversion.pc = "raised"

C22_ShortCircuit ==
    \A i \in 1..Len(conversion.attempts), j \in 1..Len(conversion.attempts) :
        (i < j /\ LeavesOutput(i)) => ~conversion.attempts[j].invoked

\* C22: permitted backends only, in order, short-circuit on a valid output
C22_PermittedOrderedShortCircuit ==
    C22_OnlyPermittedInOrder /\ C22_ShortCircuit

(***************************************************************************)
(* C23  The docx2pdf attempts run in the order direct, beside the source,  *)
(* staging directory; a later shape is attempted only while the            *)
(* destination is missing or empty after the earlier one; an output        *)
(* produced beside the source or in the staging directory is moved to the  *)
(* destination before success is declared.                                 *)
(***************************************************************************)
Docx2pdfAttempts ==
    SelectSeq(conversion.attempts, LAMBDA a : a.backend = "docx2pdf")

Docx2pdfShapes == <<"direct", "in_place", "staging">>

\* where the attempt of a shape lets docx2pdf write
ShapeTarget(shape) ==
    IF shape = "direct" THEN "out"
    ELSE IF shape = "in_place" THEN conversion.layout.in_place_pdf
    ELSE "stage"

\* C23: the three shapes in order, each only after the earlier one failed,
\* and the output moved to the destination before the return
C23_ShapesInOrder ==
    LET d == Docx2pdfAttempts
        n == Len(d)
    IN /\ n <= 3
       /\ \A k \in 1..n : d[k].shape = Docx2pdfShapes[k] /\ d[k].invoked
       /\ \A k \in 2..n : ~d[k - 1].ready_after /\ ~d[k].ready_before
       /\ conversion.pc \in {"in_place", "staging"}
             => /\ n >= 1 /\ ~d[n].ready_after
                /\ ~output_ready(conversion.files)
       /\ (conversion.pc = "returned" /\ n >= 1)
             => /\ d[n].ready_after
                /\ FileNonEmpty(conversion.files, "out")
                /\ (~d[n].ready_before /\ ShapeTarget(d[n].shape) # "out")
                      => /\ conversion.files["out"] = "docx2pdf"
                         /\ conversion.files[ShapeTarget(d[n].shape)] = "missing"

\* the third shape produced the output and it was moved to the destination
C23_Witness ==
    /\ conversion.pc = "returned"
    /\ Len(Docx2pdfAttempts) = 3
    /\ conversion.layout.in_place_pdf = "beside"
    /\ conversion.files["out"] = "docx2pdf"
    /\ conversion.files["stage"] = "missing"

(***************************************************************************)
(* C24  Only the caller that started an execution writes shared state on   *)
(* its completion.  A call answered from the success cache, rejected as a  *)
(* suppressed retry or attached to an execution in flight leaves the       *)
(* in-flight map and both caches as they are, the sweep apart, and never   *)
(* refreshes the timestamp of an entry.                                    *)
(***************************************************************************)
\* every entry of cache `after` is an entry of cache `before`, unchanged
OnlySwept(after, before) ==
    \A k \in DOMAIN after : k \in DOMAIN before /\ after[k] = before[k]

\* key k got a new or a changed entry
EntryWritten(after, before, k) ==
    k \in DOMAIN after /\ (k \notin DOMAIN before \/ after[k] # before[k])

\* the step in which the owner of the execution for key k continues after
\* its task is done
OwnerCompletes(k) ==
    \E c \in Callers :
        /\ callers[c].pc = "await" /\ callers[c].owns_task
        /\ callers[c].request_key = k
        /\ tasks[callers[c].task].state \in {"ok", "err"}
        /\ callers'[c].pc = "done"

C24_Step ==
    /\ \A c \in Callers :
          (CallStep(c) /\ ~callers'[c].owns_task)
             => /\ _IN_FLIGHT' = _IN_FLIGHT
                /\ OnlySwept(_RECENT_RESULTS', _RECENT_RESULTS)
                /\ OnlySwept(_RECENT_ERRORS', _RECENT_ERRORS)
    /\ \A c \in Callers :
          (callers[c].pc = "await" /\ ~callers[c].owns_task
           /\ callers'[c] # callers[c])
             => UNCHANGED <<_IN_FLIGHT, _RECENT_RESULTS, _RECENT_ERRORS>>
    /\ \A k \in DOMAIN _RECENT_RESULTS' :
          EntryWritten(_RECENT_RESULTS', _RECENT_RESULTS, k)
             => OwnerCompletes(k) /\ _RECENT_RESULTS'[k].ts = clock
    /\ \A k \in DOMAIN _RECENT_ERRORS' :
          EntryWritten(_RECENT_ERRORS', _RECENT_ERRORS, k)
             => OwnerCompletes(k) /\ _RECENT_ERRORS'[k].ts = clock
    /\ \A k \in DOMAIN _IN_FLIGHT :
          k \notin DOMAIN _IN_FLIGHT' => OwnerCompletes(k)

\* C24: duplicate calls write no shared state and refresh no timestamp
C24_OnlyOwnerWrites == [][C24_Step]_vars

\* a duplicate call was answered from the cache, and with the clock moved
\* on the entry still carries the time of the completion
C24_Witness ==
    \E c \in Callers :
        /\ callers[c].pc = "done"
        /\ callers[c].outcome.dedupe_reason = "recent-cache"
        /\ callers[c].request_key \in DOMAIN _RECENT_RESULTS
        /\ _RECENT_RESULTS[callers[c].request_key].ts = 0
        /\ clock = 1

(***************************************************************************)
(* C25  A result answered from the success cache for identity K is the     *)
(* result of the execution for K that completed last: after a later        *)
(* execution for K has failed, the success entry of an earlier one is      *)
(* returned to nobody, even while it has not been swept.                   *)
(***************************************************************************)
C25_Step ==
    \A c \in Callers :
        (CallStep(c) /\ callers'[c].outcome.dedupe_reason = "recent-cache")
            => LET e == callers'[c].outcome.payload.run IN
               /\ e \in TaskIds
               /\ tasks[e].key = callers'[c].request_key
               /\ tasks[e].state = "ok"
               /\ \A e2 \in TaskIds :
                     (e2 # e /\ tasks[e2].key = tasks[e].key /\ Finished(e2))
                        => e2 < e

\* C25: the success cache never answers with a result older than the last
\* completed execution of the identity
C25_LatestResultOnly == [][C25_Step]_vars

\* the success entry of execution 1 is still cached, execution 2 for the
\* same identity has failed, and a call made then was rejected as a retry
C25_Witness ==
    /\ Len(tasks) = 2
    /\ tasks[1].key = tasks[2].key
    /\ SuccessEntryOf(1)
    /\ tasks[2].state = "err" /\ tasks[2].settled
    /\ \E c \in Callers :
          /\ callers[c].pc = "done" /\ callers[c].task = NoTask
          /\ callers[c].request_key = tasks[1].key
          /\ callers[c].outcome.kind = "error"

(***************************************************************************)
(* C26  In the docx2pdf family an attempt's outcome is decided by the      *)
(* destination alone: if it is present and non-empty after the attempt,    *)
(* the conversion ends with success even when convert raised, no further   *)
(* attempt is made and the recorded error is not reported; otherwise the   *)
(* conversion does not end with success in that attempt.                   *)
(***************************************************************************)
DestinationValid == conversion.files["out"] \notin {"missing", "empty"}

\* C26: success of a docx2pdf attempt is the destination being valid
C26_DestinationDecides ==
    LET at == conversion.attempts
        n == Len(at)
    IN \A i \in 1..n :
          at[i].backend = "docx2pdf" =>
             /\ i < n => ~at[i].ready_after
             /\ i = n =>
                   /\ at[i].ready_after = DestinationValid
                   /\ DestinationValid
                         => /\ conversion.pc = "returned"
                            /\ conversion.detail = <<>>
                            /\ ~ENABLED NextConv
                   /\ ~DestinationValid => conversion.pc # "returned"

\* convert raised in the second attempt, yet left the output: success,
\* with the errors of both attempts recorded and none reported
C26_Witness ==
    /\ conversion.pc = "returned"
    /\ Len(Docx2pdfAttempts) = 2
    /\ Docx2pdfAttempts[1].raised /\ Docx2pdfAttempts[2].raised
    /\ ~Docx2pdfAttempts[2].ready_before
    /\ Len(conversion.errors) >= 2
    /\ conversion.detail = <<>>

=============================================================================
